---- MODULE Spec2Model ----
(***************************************************************************)
(* A model of easy_scpi's scpi_instrument.py: the Property command node,   *)
(* the port-to-resource resolution of SCPI_Instrument, and the session's   *)
(* connect / disconnect / write / read / query paths run by threads.       *)
(*                                                                         *)
(* Text is modelled as a sequence of one-character strings, so that        *)
(* upper(), replace(), startswith(), join() and re.match() are computed    *)
(* character by character as Python computes them.                         *)
(***************************************************************************)
EXTENDS Integers, Sequences, FiniteSets, TLC

(***************************************************************************)
(* Text helpers: str.upper, str.startswith, str.endswith, str.replace      *)
(***************************************************************************)
LowerChars == <<"a","b","c","d","e","f","g","h","i","j","k","l","m",
                "n","o","p","q","r","s","t","u","v","w","x","y","z">>

UpperChars == <<"A","B","C","D","E","F","G","H","I","J","K","L","M",
                "N","O","P","Q","R","S","T","U","V","W","X","Y","Z">>

\* one character of str.upper()
UpperChar(c) ==
    IF \E i \in 1..Len(LowerChars) : LowerChars[i] = c
    THEN UpperChars[CHOOSE i \in 1..Len(LowerChars) : LowerChars[i] = c]
    ELSE c

\* one character of str.lower()
LowerChar(c) ==
    IF \E i \in 1..Len(UpperChars) : UpperChars[i] = c
    THEN LowerChars[CHOOSE i \in 1..Len(UpperChars) : UpperChars[i] = c]
    ELSE c

\* str.upper()
Upper(s) == [i \in 1..Len(s) |-> UpperChar(s[i])]

\* str.lower()
Lower(s) == [i \in 1..Len(s) |-> LowerChar(s[i])]

\* s.startswith(p)
StartsWith(s, p) == Len(p) <= Len(s) /\ SubSeq(s, 1, Len(p)) = p

\* s.endswith(p)
EndsWith(s, p) == Len(p) <= Len(s) /\ SubSeq(s, Len(s) - Len(p) + 1, Len(s)) = p

\* s[i:] in Python, with i counted from 1 here
Tail1(s, i) == SubSeq(s, i, Len(s))

RECURSIVE Replace(_, _, _)
\* s.replace(old, new) for a non-empty old: every non-overlapping occurrence,
\* scanning from the left
Replace(s, old, new) ==
    IF s = <<>> THEN <<>>
    ELSE IF StartsWith(s, old) THEN new \o Replace(Tail1(s, Len(old) + 1), old, new)
    ELSE <<s[1]>> \o Replace(Tail1(s, 2), old, new)

RECURSIVE Join(_, _)
\* sep.join(parts)
Join(sep, parts) ==
    IF parts = <<>> THEN <<>>
    ELSE IF Len(parts) = 1 THEN parts[1]
    ELSE parts[1] \o sep \o Join(sep, Tail(parts))

(***************************************************************************)
(* re.match(pattern, text, re.IGNORECASE) for the pattern syntax the port  *)
(* setters produce: literal characters, ".", ".*", a capturing group       *)
(* "(...)" and an optional non-capturing group "(?:...)?".  A pattern is   *)
(* first read into tokens, then matched at the start of the text with the  *)
(* backtracking order of Python's re (greedy first).                       *)
(***************************************************************************)
TokLit(c) == [k |-> "lit", c |-> c, s |-> <<>>]
TokAny == [k |-> "any", c |-> "", s |-> <<>>]
TokAnyStar == [k |-> "anystar", c |-> "", s |-> <<>>]
TokOpt(s) == [k |-> "opt", c |-> "", s |-> s]

\* index of the first ")" of p at or after i, or 0
ClosingParen(p, i) ==
    IF \E j \in i..Len(p) : p[j] = ")"
    THEN CHOOSE j \in i..Len(p) : p[j] = ")" /\ \A h \in i..(j - 1) : p[h] # ")"
    ELSE 0

RECURSIVE ReTokens(_, _)
\* the tokens of pattern p from index i on
ReTokens(p, i) ==
    IF i > Len(p) THEN <<>>
    ELSE IF p[i] = "(" /\ i + 2 <= Len(p) /\ p[i + 1] = "?" /\ p[i + 2] = ":"
    THEN LET j == ClosingParen(p, i + 3)
         IN  IF j # 0 /\ j + 1 <= Len(p) /\ p[j + 1] = "?"
             THEN <<TokOpt(SubSeq(p, i + 3, j - 1))>> \o ReTokens(p, j + 2)
             ELSE ReTokens(p, i + 3)
    ELSE IF p[i] = "(" \/ p[i] = ")" THEN ReTokens(p, i + 1)
    ELSE IF p[i] = "." /\ i + 1 <= Len(p) /\ p[i + 1] = "*"
    THEN <<TokAnyStar>> \o ReTokens(p, i + 2)
    ELSE IF p[i] = "." THEN <<TokAny>> \o ReTokens(p, i + 1)
    ELSE <<TokLit(p[i])>> \o ReTokens(p, i + 1)

\* text s holds the literal characters lit from position j + 1 on, ignoring case
LitAt(s, j, lit) ==
    /\ j + Len(lit) <= Len(s)
    /\ \A h \in 1..Len(lit) : UpperChar(s[j + h]) = UpperChar(lit[h])

RECURSIVE ReMatchFrom(_, _, _, _)
RECURSIVE ReStar(_, _, _, _, _)
\* tokens toks[i..] matched against s from position j (characters s[j+1..]):
\* the end position of the first match in backtracking order, or -1
ReMatchFrom(toks, i, s, j) ==
    IF i > Len(toks) THEN j
    ELSE IF toks[i].k = "lit"
    THEN IF LitAt(s, j, <<toks[i].c>>) THEN ReMatchFrom(toks, i + 1, s, j + 1) ELSE -1
    ELSE IF toks[i].k = "any"
    THEN IF j + 1 <= Len(s) THEN ReMatchFrom(toks, i + 1, s, j + 1) ELSE -1
    ELSE IF toks[i].k = "anystar"
    THEN ReStar(toks, i, s, j, Len(s))
    ELSE LET taken == IF LitAt(s, j, toks[i].s)
                      THEN ReMatchFrom(toks, i + 1, s, j + Len(toks[i].s))
                      ELSE -1
         IN  IF taken # -1 THEN taken ELSE ReMatchFrom(toks, i + 1, s, j)

\* ".*" at toks[i]: the longest stretch s[j+1..h] first, then shorter ones
ReStar(toks, i, s, j, h) ==
    IF h < j THEN -1
    ELSE LET rest == ReMatchFrom(toks, i + 1, s, h)
         IN  IF rest # -1 THEN rest ELSE ReStar(toks, i, s, j, h - 1)

\* re.match(pattern, text, re.IGNORECASE): the end of the match, or -1 for None
ReMatch(pattern, text) == ReMatchFrom(ReTokens(pattern, 1), 1, text, 0)

\* match.group(0): the text matched
Group0(text, end) == SubSeq(text, 1, end)


(***************************************************************************)
(* Python values: str, int, bool, None and list of int, with str() and     *)
(* truthiness                                                              *)
(***************************************************************************)
PyStr(s) == [ty |-> "str", s |-> s, n |-> 0, b |-> FALSE, items |-> <<>>]
PyInt(n) == [ty |-> "int", s |-> <<>>, n |-> n, b |-> FALSE, items |-> <<>>]
PyBool(b) == [ty |-> "bool", s |-> <<>>, n |-> 0, b |-> b, items |-> <<>>]
PyNone == [ty |-> "none", s |-> <<>>, n |-> 0, b |-> FALSE, items |-> <<>>]
PyList(items) == [ty |-> "list", s |-> <<>>, n |-> 0, b |-> FALSE, items |-> items]

\* bool(v): the truth value Python's "if v" and "not v" use
Truthy(v) ==
    IF v.ty = "str" THEN v.s # <<>>
    ELSE IF v.ty = "int" THEN v.n # 0
    ELSE IF v.ty = "bool" THEN v.b
    ELSE IF v.ty = "list" THEN v.items # <<>>
    ELSE FALSE

DigitChars == <<"0","1","2","3","4","5","6","7","8","9">>

RECURSIVE NatToStr(_)
\* str(n) for n >= 0
NatToStr(n) ==
    IF n < 10 THEN <<DigitChars[n + 1]>>
    ELSE NatToStr(n \div 10) \o <<DigitChars[(n % 10) + 1]>>

\* str(n) for an int n
IntToStr(n) == IF n < 0 THEN <<"-">> \o NatToStr(0 - n) ELSE NatToStr(n)

\* str(v); a list prints as "[1, 2]"
StrOf(v) ==
    IF v.ty = "str" THEN v.s
    ELSE IF v.ty = "int" THEN IntToStr(v.n)
    ELSE IF v.ty = "bool" THEN (IF v.b THEN <<"T","r","u","e">> ELSE <<"F","a","l","s","e">>)
    ELSE IF v.ty = "list"
    THEN <<"[">> \o Join(<<",", " ">>, [i \in 1..Len(v.items) |-> IntToStr(v.items[i])])
               \o <<"]">>
    ELSE <<"N","o","n","e">>

\* an optional text: None, or a str
NoneText == [some |-> FALSE, v |-> <<>>]
SomeText(s) == [some |-> TRUE, v |-> s]

(***************************************************************************)
(* The errors the code raises, named as the specification names them       *)
(***************************************************************************)
NotAddressed == "RuntimeError: Can not connect. No resource id provided."
NotConnected == "RuntimeError: instrument not connected"
HandshakeFailure == "RuntimeError: handshake"
UnsupportedOperation == "TypeError: requires a MessageBasedResource"
UnsupportedPort == "ValueError: Port must start with one of the prefixes"
ResourceNotFound == "RuntimeError: Could not find resource"
AmbiguousResource == "RuntimeError: Found multiple resources"
\* raised by the transport (pyvisa)
InvalidSession == "visa.InvalidSession"
VisaIOError == "visa.VisaIOError"
NoError == ""

(***************************************************************************)
(* Texts and bounds                                                        *)
(***************************************************************************)
Threads == {"t1", "t2"}
NoThread == "none"
NoObject == "none"

\* the most transport sessions the VISA library holds open at once
MaxSessions == 2

\* the most Property objects the attribute accesses make
MaxNodes == 3

\* the longest text of letters given to val2state
MaxWordLen == 3

IdnQuery == <<"*","I","D","N","?">>
RemoteMsg == <<"S","Y","S","T",":","R","E","M">>
OkText == <<"O","K">>
ErrText == <<"E","R","R">>
\* what the instrument may answer to a read or a query
ReplyTexts == {OkText, ErrText}
\* what a transport write may return (the number of bytes written)
WriteResults == {PyInt(2)}
\* the messages callers pass to write() and query()
Messages == {<<"X">>}

VARIABLES
    system,        \* platform.system()
    visible,       \* what rm.list_resources() returns
    messageBased,  \* open_resource() makes a MessageBasedResource for the resource
    inst,          \* SCPI_Instrument.__inst: NoObject or a Resource object
    port,          \* SCPI_Instrument.__port
    portMatch,     \* SCPI_Instrument.__port_match
    rid,           \* SCPI_Instrument.__rid
    handshake,     \* SCPI_Instrument.handshake
    argSeparator,  \* SCPI_Instrument.arg_separator
    prefixCmds,    \* SCPI_Instrument.prefix_cmds
    lock,          \* SCPI_Instrument._lock, a threading.RLock
    alive,         \* the session object has not been destroyed
    obj,           \* the pyvisa Resource objects, by the thread that opened them
    openSessions,  \* the sessions open in the VISA library
    th,            \* each thread's position and local variables
    ret,           \* what each thread's last finished call returned or raised
    trace,         \* the transport calls of each thread's current or last call
    sent,          \* the session-level write/query calls a Property.__call__ made
    lastIO,        \* the thread whose write/read/query transport call began last
    nodes,         \* the Property objects made so far, each with the names that led to it
    got,           \* what the last attribute access returned
    conv           \* the last value given to val2state and what the calls returned

vars == <<system, visible, messageBased, inst, port, portMatch, rid, handshake, argSeparator,
          prefixCmds, lock, alive, obj, openSessions, th, ret, trace, sent, lastIO,
          nodes, got, conv>>

envVars == <<system, visible, messageBased>>
configVars == <<portMatch, handshake, argSeparator, prefixCmds>>
addressVars == <<port, rid>>
transportVars == <<inst, obj, openSessions>>
propertyVars == <<nodes, got, conv>>
sessionVars == <<lock, alive, th, ret, trace, sent, lastIO>>
(***************************************************************************)
(* Empty values                                                            *)
(***************************************************************************)
NoResource == [made |-> FALSE, session |-> 0, name |-> <<>>, mb |-> FALSE]
NoNode == [name |-> <<>>, sep |-> <<>>]
NoRet == [op |-> "", exc |-> NoError, val |-> PyNone]
NoGot == [chain |-> <<>>, isNode |-> FALSE, ref |-> 0, text |-> NoneText]
NoResult == [exc |-> NoError, val |-> PyNone]
NoConv == [calls |-> 0, x |-> PyNone, r1 |-> NoResult, r2 |-> NoResult]
FreeLock == [owner |-> NoThread, count |-> 0]

IdleThread ==
    [pc |-> "idle", op |-> "", method |-> "", msg |-> <<>>, arg |-> NoneText,
     er |-> FALSE, resp |-> PyNone, hs |-> PyNone, tobj |-> NoObject,
     node |-> NoNode, values |-> <<>>, fq |-> PyNone]

(***************************************************************************)
(* Helpers of the thread steps                                             *)
(***************************************************************************)
\* a thread may begin a public call
CanStart(t) == alive /\ th[t].pc = "idle"

\* the thread record at the start of public call o
Started(o) == [IdleThread EXCEPT !.op = o]

\* the RLock after thread t acquired it once more
Acquired(t) == [owner |-> t, count |-> lock.count + 1]

\* a lock that never blocks
MayAcquire_Mut(t) == TRUE

\* a lock that is not re-entrant: its owner blocks too
MayAcquire_NoReentry(t) == lock.owner = NoThread

\* RLock.acquire() does not block thread t
MayAcquire(t) == lock.owner = NoThread \/ lock.owner = t

\* the RLock after its owner released it k times
Released(k) ==
    IF lock.count - k <= 0 THEN FreeLock
    ELSE [owner |-> lock.owner, count |-> lock.count - k]

\* one transport call in a thread's trace
Call(c, m, st, v) == [c |-> c, m |-> m, st |-> st, v |-> v]

\* the trace with its last call given its outcome
Outcome(tr, st, v) == [tr EXCEPT ![Len(tr)] = [@ EXCEPT !.st = st, !.v = v]]

\* what the public call o returns when the method it delegated to returned v
ReturnOf(o, v) == IF o \in {"connect", "enter"} THEN PyNone ELSE v

\* thread t's public call ends, raising exc (NoError: returning v)
Finish(t, exc, v) ==
    /\ th' = [th EXCEPT ![t] = [@ EXCEPT !.pc = "idle", !.method = "", !.resp = PyNone,
                                         !.hs = PyNone, !.tobj = NoObject]]
    /\ ret' = [ret EXCEPT ![t] = [op |-> th[t].op, exc |-> exc,
                                  val |-> IF exc = NoError THEN ReturnOf(th[t].op, v) ELSE v]]

\* "if self.__inst is None" as write, read, query, read_raw, ... test it
InstIsNone == inst = NoObject

\* thread t, in state rec, calls the session method m with msg: the method's
\* first statement raises NotConnected or lets the thread go on to the lock
EnterMethod(t, rec, m, msg) ==
    IF InstIsNone
    THEN /\ th' = [th EXCEPT ![t] = [rec EXCEPT !.pc = "idle"]]
         /\ ret' = [ret EXCEPT ![t] = [op |-> rec.op, exc |-> NotConnected, val |-> PyNone]]
    ELSE /\ th' = [th EXCEPT ![t] = [rec EXCEPT
                     !.pc = IF m \in {"read", "read_raw"} THEN "r_lock" ELSE "io_lock",
                     !.method = m, !.msg = msg]]
         /\ ret' = [ret EXCEPT ![t] = NoRet]

(***************************************************************************)
(* pyvisa: the Resource objects and the library's sessions                 *)
(***************************************************************************)
\* the library can open one more session
CanOpen == openSessions # 1..MaxSessions

\* the handle the library gives the next session it opens
FreshSession ==
    CHOOSE s \in 1..MaxSessions :
        s \notin openSessions /\ \A r \in 1..(s - 1) : r \in openSessions

\* Resource.session is valid (reading it does not raise InvalidSession)
SessionValid(o) == o # NoObject /\ obj[o].session # 0

\* SCPI_Instrument.connected
Connected == IF inst = NoObject THEN FALSE ELSE SessionValid(inst)

\* what the transport call c may return
ResultsOf(c) ==
    IF c = "write" THEN WriteResults ELSE {PyStr(x) : x \in ReplyTexts}

(***************************************************************************)
(* write(), query() and the *_values queries: lock, transport call,        *)
(* handshake                                                               *)
(***************************************************************************)
WriteStart(t, msg) ==
    /\ CanStart(t)
    /\ EnterMethod(t, Started("write"), "write", msg)
    /\ trace' = [trace EXCEPT ![t] = <<>>]
    /\ sent' = [sent EXCEPT ![t] = <<>>]
    /\ UNCHANGED <<envVars, propertyVars, configVars, addressVars, transportVars, lock, alive, lastIO>>

QueryStart(t, msg) ==
    /\ CanStart(t)
    /\ EnterMethod(t, Started("query"), "query", msg)
    /\ trace' = [trace EXCEPT ![t] = <<>>]
    /\ sent' = [sent EXCEPT ![t] = <<>>]
    /\ UNCHANGED <<envVars, propertyVars, configVars, addressVars, transportVars, lock, alive, lastIO>>

ReadStart(t) ==
    /\ CanStart(t)
    /\ EnterMethod(t, Started("read"), "read", <<>>)
    /\ trace' = [trace EXCEPT ![t] = <<>>]
    /\ sent' = [sent EXCEPT ![t] = <<>>]
    /\ UNCHANGED <<envVars, propertyVars, configVars, addressVars, transportVars, lock, alive, lastIO>>

\* "with self._lock:" of write, query, query_ascii_values, query_binary_values
IoLock(t) ==
    /\ th[t].pc = "io_lock"
    /\ MayAcquire(t)
    /\ lock' = Acquired(t)
    /\ th' = [th EXCEPT ![t] = [@ EXCEPT !.pc = "io_call"]]
    /\ UNCHANGED <<envVars, propertyVars, configVars, addressVars, transportVars, alive, ret, trace,
                   sent, lastIO>>

\* "resp = self.__inst.write(msg)" (or query, ...): the transport call begins
IoCall(t) ==
    /\ th[t].pc = "io_call"
    /\ th' = [th EXCEPT ![t] = [@ EXCEPT !.pc = "io_ret", !.tobj = inst]]
    /\ trace' = [trace EXCEPT ![t] =
                    Append(@, Call(th[t].method, th[t].msg, "inflight", PyNone))]
    /\ lastIO' = t
    /\ UNCHANGED <<envVars, propertyVars, configVars, addressVars, transportVars, lock, alive, ret, sent>>

\* the transport call returns v
IoRetOk(t) ==
    /\ th[t].pc = "io_ret"
    /\ SessionValid(th[t].tobj)
    /\ \E v \in ResultsOf(th[t].method) :
        /\ th' = [th EXCEPT ![t] = [@ EXCEPT !.pc = "hs", !.resp = v]]
        /\ trace' = [trace EXCEPT ![t] = Outcome(@, "ok", v)]
    /\ UNCHANGED <<envVars, propertyVars, configVars, addressVars, transportVars, lock, alive, ret,
                   sent, lastIO>>

\* the transport call raises: InvalidSession on a closed Resource, else an
\* I/O error (a timeout); the with statement releases the lock
IoRetRaise(t) ==
    /\ th[t].pc = "io_ret"
    /\ LET exc == IF SessionValid(th[t].tobj) THEN VisaIOError ELSE InvalidSession
       IN  /\ trace' = [trace EXCEPT ![t] = Outcome(@, exc, PyNone)]
           /\ Finish(t, exc, PyNone)
    /\ lock' = Released(1)
    /\ UNCHANGED <<envVars, propertyVars, configVars, addressVars, transportVars, alive, sent, lastIO>>

\* _handle_handshake: "if self.handshake:" and, when it is set, the call of
\* self.read() up to its "if self.__inst is None"
Handshake(t) ==
    /\ th[t].pc = "hs"
    /\ IF Truthy(handshake)
       THEN IF InstIsNone
            THEN Finish(t, NotConnected, PyNone) /\ lock' = Released(1)
            ELSE /\ th' = [th EXCEPT ![t] = [@ EXCEPT !.pc = "r_lock"]]
                 /\ UNCHANGED <<ret, lock>>
       ELSE Finish(t, NoError, th[t].resp) /\ lock' = Released(1)
    /\ UNCHANGED <<envVars, propertyVars, configVars, addressVars, transportVars, alive, trace, sent,
                   lastIO>>

(***************************************************************************)
(* read() and read_raw(), called by the user or by _handle_handshake       *)
(***************************************************************************)
\* the read was called by _handle_handshake, inside write or a query
Nested(t) == th[t].method \notin {"read", "read_raw"}

\* "with self._lock:" of read and read_raw
ReadLock(t) ==
    /\ th[t].pc = "r_lock"
    /\ MayAcquire(t)
    /\ lock' = Acquired(t)
    /\ th' = [th EXCEPT ![t] = [@ EXCEPT !.pc = "r_call"]]
    /\ UNCHANGED <<envVars, propertyVars, configVars, addressVars, transportVars, alive, ret, trace,
                   sent, lastIO>>

\* "resp = self.__inst.read()": the transport call begins
ReadCall(t) ==
    /\ th[t].pc = "r_call"
    /\ th' = [th EXCEPT ![t] = [@ EXCEPT !.pc = "r_ret", !.tobj = inst]]
    /\ trace' = [trace EXCEPT ![t] =
                    Append(@, Call(IF Nested(t) THEN "read" ELSE th[t].method,
                                   <<>>, "inflight", PyNone))]
    /\ lastIO' = t
    /\ UNCHANGED <<envVars, propertyVars, configVars, addressVars, transportVars, lock, alive, ret, sent>>

\* the transport read returns v: read returns it, _handle_handshake keeps it
ReadRetOk(t) ==
    /\ th[t].pc = "r_ret"
    /\ SessionValid(th[t].tobj)
    /\ \E v \in ResultsOf("read") :
        /\ trace' = [trace EXCEPT ![t] = Outcome(@, "ok", v)]
        /\ IF Nested(t)
           THEN /\ th' = [th EXCEPT ![t] = [@ EXCEPT !.pc = "hs_cmp", !.hs = v]]
                /\ UNCHANGED ret
           ELSE Finish(t, NoError, v)
    /\ lock' = Released(1)
    /\ UNCHANGED <<envVars, propertyVars, configVars, addressVars, transportVars, alive, sent, lastIO>>

\* the transport read raises; the error leaves read and, when nested, the
\* caller's with statement too
ReadRetRaise(t) ==
    /\ th[t].pc = "r_ret"
    /\ LET exc == IF SessionValid(th[t].tobj) THEN VisaIOError ELSE InvalidSession
       IN  /\ trace' = [trace EXCEPT ![t] = Outcome(@, exc, PyNone)]
           /\ Finish(t, exc, PyNone)
    /\ lock' = Released(IF Nested(t) THEN 2 ELSE 1)
    /\ UNCHANGED <<envVars, propertyVars, configVars, addressVars, transportVars, alive, sent, lastIO>>

\* a handshake that accepts any reply
HandshakeMatches_Mut(hs) == TRUE

\* _handle_handshake: "if hs != self.handshake: raise RuntimeError(hs)"
HandshakeMatches(hs) == hs = handshake

\* the comparison, and the end of write or the query
HandshakeCompare(t) ==
    /\ th[t].pc = "hs_cmp"
    /\ IF HandshakeMatches(th[t].hs)
       THEN Finish(t, NoError, th[t].resp)
       ELSE Finish(t, HandshakeFailure, th[t].hs)
    /\ lock' = Released(1)
    /\ UNCHANGED <<envVars, propertyVars, configVars, addressVars, transportVars, alive, trace, sent,
                   lastIO>>

(***************************************************************************)
(* connect() and disconnect()                                              *)
(***************************************************************************)
\* connect without the test of the resource id
RidMissing_Mut == FALSE

\* "if not self.rid"
RidMissing == ~(rid.some /\ rid.v # <<>>)

\* connect: the test of the resource id and of "self.__inst is None"
ConnectStart(t, er) ==
    /\ CanStart(t)
    /\ IF RidMissing
       THEN /\ th' = [th EXCEPT ![t] = [Started("connect") EXCEPT !.er = er]]
            /\ ret' = [ret EXCEPT ![t] = [op |-> "connect", exc |-> NotAddressed,
                                          val |-> PyNone]]
       ELSE /\ th' = [th EXCEPT ![t] = [Started("connect") EXCEPT !.er = er,
                        !.pc = IF InstIsNone THEN "c_open_resource" ELSE "c_open"]]
            /\ ret' = [ret EXCEPT ![t] = NoRet]
    /\ trace' = [trace EXCEPT ![t] = <<>>]
    /\ sent' = [sent EXCEPT ![t] = <<>>]
    /\ UNCHANGED <<envVars, propertyVars, configVars, addressVars, transportVars, lock, alive, lastIO>>

\* "self.__inst = self.__rm.open_resource(self.rid)": a new Resource with a
\* session of its own, message based or not as the resource's class is
ConnectOpenResource(t) ==
    /\ th[t].pc = "c_open_resource"
    /\ rid.some
    /\ CanOpen
    /\ obj' = [obj EXCEPT ![t] = [made |-> TRUE, session |-> FreshSession,
                                  name |-> rid.v, mb |-> messageBased]]
    /\ openSessions' = openSessions \cup {FreshSession}
    /\ inst' = t
    /\ th' = [th EXCEPT ![t] = [@ EXCEPT !.pc = "c_remote"]]
    /\ trace' = [trace EXCEPT ![t] = Append(@, Call("open_resource", rid.v, "ok", PyNone))]
    /\ UNCHANGED <<envVars, propertyVars, configVars, addressVars, lock, alive, ret, sent, lastIO>>

\* "self.__inst.open()": the Resource opens a new session for the resource
\* it was made for and forgets the session it held
ConnectReopen(t) ==
    /\ th[t].pc = "c_open"
    /\ CanOpen
    /\ obj' = [obj EXCEPT ![inst] = [@ EXCEPT !.session = FreshSession]]
    /\ openSessions' = openSessions \cup {FreshSession}
    /\ th' = [th EXCEPT ![t] = [@ EXCEPT !.pc = "c_remote"]]
    /\ trace' = [trace EXCEPT ![t] = Append(@, Call("open", obj[inst].name, "ok", PyNone))]
    /\ UNCHANGED <<envVars, propertyVars, configVars, addressVars, inst, lock, alive, ret, sent, lastIO>>

\* open_resource or open raises (the resource does not answer)
ConnectOpenRaise(t) ==
    /\ th[t].pc \in {"c_open_resource", "c_open"}
    /\ trace' = [trace EXCEPT ![t] =
                    Append(@, Call(IF th[t].pc = "c_open" THEN "open" ELSE "open_resource",
                                   rid.v, VisaIOError, PyNone))]
    /\ Finish(t, VisaIOError, PyNone)
    /\ UNCHANGED <<envVars, propertyVars, configVars, addressVars, transportVars, lock, alive, sent,
                   lastIO>>

\* "if explicit_remote is False: self.id  else: self.write(explicit_remote)"
ConnectRemote(t) ==
    /\ th[t].pc = "c_remote"
    /\ IF th[t].er
       THEN EnterMethod(t, th[t], "write", RemoteMsg)
       ELSE EnterMethod(t, th[t], "query", IdnQuery)
    /\ UNCHANGED <<envVars, propertyVars, configVars, addressVars, transportVars, lock, alive, trace,
                   sent, lastIO>>

\* a disconnect that returns without closing the Resource
DisconnectStart_Mut(t, o) ==
    /\ CanStart(t)
    /\ th' = [th EXCEPT ![t] = Started(o)]
    /\ ret' = [ret EXCEPT ![t] = [op |-> o, exc |-> NoError, val |-> PyNone]]
    /\ trace' = [trace EXCEPT ![t] = <<>>]
    /\ sent' = [sent EXCEPT ![t] = <<>>]
    /\ UNCHANGED <<envVars, propertyVars, configVars, addressVars, transportVars, lock, alive, lastIO>>

\* disconnect: "if self.__inst is not None: self.__inst.close()"
DisconnectStart(t, o) ==
    /\ CanStart(t)
    /\ IF InstIsNone
       THEN /\ th' = [th EXCEPT ![t] = Started(o)]
            /\ ret' = [ret EXCEPT ![t] = [op |-> o, exc |-> NoError, val |-> PyNone]]
            /\ trace' = [trace EXCEPT ![t] = <<>>]
       ELSE /\ th' = [th EXCEPT ![t] = [Started(o) EXCEPT !.pc = "close", !.tobj = inst]]
            /\ ret' = [ret EXCEPT ![t] = NoRet]
            /\ trace' = [trace EXCEPT ![t] = <<Call("close", <<>>, "inflight", PyNone)>>]
    /\ sent' = [sent EXCEPT ![t] = <<>>]
    /\ UNCHANGED <<envVars, propertyVars, configVars, addressVars, transportVars, lock, alive, lastIO>>

\* Resource.close() returns: the session is closed and forgotten (closing a
\* Resource that holds no session changes nothing, "noop" in the trace); the
\* caller goes on
CloseRetOk(t) ==
    /\ th[t].pc = "close"
    /\ obj' = [obj EXCEPT ![th[t].tobj] = [@ EXCEPT !.session = 0]]
    /\ openSessions' = openSessions \ {obj[th[t].tobj].session}
    /\ trace' = [trace EXCEPT ![t] =
                    Outcome(@, IF SessionValid(th[t].tobj) THEN "ok" ELSE "noop", PyNone)]
    /\ IF th[t].op = "set_port"
       THEN /\ th' = [th EXCEPT ![t] = [@ EXCEPT !.pc = "sp_assign", !.tobj = NoObject]]
            /\ UNCHANGED ret
       ELSE Finish(t, NoError, PyNone)
    /\ alive' = IF th[t].op = "del" THEN FALSE ELSE alive
    /\ UNCHANGED <<envVars, propertyVars, configVars, addressVars, inst, lock, sent, lastIO>>

\* what a caller of the public call o sees when Resource.close() raised exc
\* inside it: Python reports an exception raised in __del__ and does not
\* propagate it; disconnect, __exit__ and the port setters catch nothing
CloseErrorSeen(o, exc) == IF o = "del" THEN NoError ELSE exc

\* Resource.close() raises while closing an open session: the session stays
CloseRetRaise(t) ==
    /\ th[t].pc = "close"
    /\ SessionValid(th[t].tobj)
    /\ trace' = [trace EXCEPT ![t] = Outcome(@, VisaIOError, PyNone)]
    /\ Finish(t, CloseErrorSeen(th[t].op, VisaIOError), PyNone)
    /\ alive' = IF th[t].op = "del" THEN FALSE ELSE alive
    /\ UNCHANGED <<envVars, propertyVars, configVars, addressVars, transportVars, lock, sent, lastIO>>

(***************************************************************************)
(* Teardown: __del__ (and __exit__, which is DisconnectStart)              *)
(***************************************************************************)
\* __del__: "if self.connected: self.disconnect()", then the attributes go
DelStart(t) ==
    /\ CanStart(t)
    /\ \A u \in Threads : th[u].pc = "idle"
    /\ IF Connected
       THEN /\ th' = [th EXCEPT ![t] = [Started("del") EXCEPT !.pc = "close", !.tobj = inst]]
            /\ ret' = [ret EXCEPT ![t] = NoRet]
            /\ trace' = [trace EXCEPT ![t] = <<Call("close", <<>>, "inflight", PyNone)>>]
            /\ UNCHANGED alive
       ELSE /\ th' = [th EXCEPT ![t] = Started("del")]
            /\ ret' = [ret EXCEPT ![t] = [op |-> "del", exc |-> NoError, val |-> PyNone]]
            /\ trace' = [trace EXCEPT ![t] = <<>>]
            /\ alive' = FALSE
    /\ sent' = [sent EXCEPT ![t] = <<>>]
    /\ UNCHANGED <<envVars, propertyVars, configVars, addressVars, transportVars, lock, lastIO>>

(***************************************************************************)
(* The port setter: _set_port_windows, _set_port_linux, _match_resource    *)
(***************************************************************************)
WindowsPrefixes == <<<<"C","O","M">>, <<"U","S","B">>, <<"G","P","I","B">>, <<"T","C","P","I","P">>>>
LinuxPrefixes == <<<<"U","S","B">>, <<"G","P","I","B">>, <<"T","C","P","I","P">>>>

\* any(port_name.startswith(p) for p in prefixes[from:])
AnyPrefix(portName, prefixes, from) ==
    \E i \in from..Len(prefixes) : StartsWith(portName, prefixes[i])

\* port_name.endswith("INSTR") or port_name.endswith("SOCKET")
HasTerminalSuffix(portName) == EndsWith(portName, <<"I","N","S","T","R">>) \/ EndsWith(portName, <<"S","O","C","K","E","T">>)

\* _set_port_windows refuses the port
WindowsRefuses(p) == ~AnyPrefix(Upper(p), WindowsPrefixes, 1)

\* the resource pattern _set_port_windows builds for an accepted port
WindowsPattern(p) ==
    IF AnyPrefix(Upper(p), WindowsPrefixes, 2)
    THEN IF HasTerminalSuffix(Upper(p)) THEN p ELSE p \o <<":",":",".","*",":",":","I","N","S","T","R">>
    ELSE <<"A","S","R","L","(","(","?",":","C","O","M",")","?">> \o Replace(p, <<"C","O","M">>, <<>>) \o <<")",":",":","I","N","S","T","R">>

\* the resource pattern _set_port_linux builds
LinuxPattern(p) ==
    IF AnyPrefix(Upper(p), LinuxPrefixes, 1)
    THEN IF HasTerminalSuffix(Upper(p)) THEN p ELSE p \o <<":",":",".","*",":",":","I","N","S","T","R">>
    ELSE LET a == IF StartsWith(p, <<"A","S","R","L">>) THEN p
                  ELSE IF StartsWith(p, <<"/">>) THEN <<"A","S","R","L">> \o p
                  ELSE <<"A","S","R","L">> \o <<"/">> \o p
         IN  IF EndsWith(a, <<":",":","I","N","S","T","R">>) THEN a ELSE a \o <<":",":","I","N","S","T","R">>

\* the pattern for port p on this platform
PatternOf(p) == IF system = "Windows" THEN WindowsPattern(p) ELSE LinuxPattern(p)

\* _match_resource: the matches of the pattern among rm.list_resources(), in
\* the order listed, each as the end of its match
MatchEnds(pattern) ==
    LET ends == [i \in 1..Len(visible) |-> ReMatch(pattern, visible[i])]
    IN  SelectSeq([i \in 1..Len(visible) |-> [res |-> visible[i], end |-> ends[i]]],
                  LAMBDA m : m.end # -1)

\* _match_resource: the error it raises, or the name it returns
MatchResource(pattern) ==
    LET matches == MatchEnds(pattern)
    IN  IF Len(matches) = 0 THEN [exc |-> ResourceNotFound, name |-> <<>>]
        ELSE IF Len(matches) > 1 THEN [exc |-> AmbiguousResource, name |-> <<>>]
        ELSE [exc |-> NoError, name |-> Group0(matches[1].res, matches[1].end)]

\* "self._match_resource(resource_pattern) if match else resource_pattern"
Resolve(p) ==
    IF portMatch THEN MatchResource(PatternOf(p))
    ELSE [exc |-> NoError, name |-> PatternOf(p)]

\* the port setter up to the call of disconnect(): None clears port and
\* resource id; the Windows variant refuses a port without a known prefix
SetPortStart(t, p) ==
    /\ CanStart(t)
    /\ sent' = [sent EXCEPT ![t] = <<>>]
    /\ IF ~p.some
       THEN /\ port' = NoneText
            /\ rid' = NoneText
            /\ th' = [th EXCEPT ![t] = [Started("set_port") EXCEPT !.arg = p]]
            /\ ret' = [ret EXCEPT ![t] = [op |-> "set_port", exc |-> NoError,
                                          val |-> PyNone]]
            /\ trace' = [trace EXCEPT ![t] = <<>>]
       ELSE IF system = "Windows" /\ WindowsRefuses(p.v)
       THEN /\ th' = [th EXCEPT ![t] = [Started("set_port") EXCEPT !.arg = p]]
            /\ ret' = [ret EXCEPT ![t] = [op |-> "set_port", exc |-> UnsupportedPort,
                                          val |-> PyNone]]
            /\ trace' = [trace EXCEPT ![t] = <<>>]
            /\ UNCHANGED addressVars
       ELSE IF ~InstIsNone
       THEN /\ th' = [th EXCEPT ![t] = [Started("set_port") EXCEPT !.arg = p,
                                           !.pc = "close", !.tobj = inst]]
            /\ ret' = [ret EXCEPT ![t] = NoRet]
            /\ trace' = [trace EXCEPT ![t] = <<Call("close", <<>>, "inflight", PyNone)>>]
            /\ UNCHANGED addressVars
       ELSE /\ th' = [th EXCEPT ![t] = [Started("set_port") EXCEPT !.arg = p,
                                           !.pc = "sp_assign"]]
            /\ ret' = [ret EXCEPT ![t] = NoRet]
            /\ trace' = [trace EXCEPT ![t] = <<>>]
            /\ UNCHANGED addressVars
    /\ UNCHANGED <<envVars, propertyVars, configVars, transportVars, lock, alive, lastIO>>

\* "self.__port = port", the pattern, the match, "self.__rid = resource"
SetPortAssign(t) ==
    /\ th[t].pc = "sp_assign"
    /\ port' = th[t].arg
    /\ LET found == Resolve(th[t].arg.v)
       IN  IF found.exc = NoError
           THEN rid' = SomeText(found.name) /\ Finish(t, NoError, PyNone)
           ELSE UNCHANGED rid /\ Finish(t, found.exc, PyNone)
    /\ UNCHANGED <<envVars, propertyVars, configVars, transportVars, lock, alive, trace, sent, lastIO>>

(***************************************************************************)
(* read_raw, query_ascii_values, query_binary_values behind the decorator  *)
(* requires_message_based                                                  *)
(***************************************************************************)
\* SCPI_Instrument.__getattr__(name): any attribute the instance does not
\* have is answered with a Property
SessionGetattrClass == "Property"

\* what "self.__inst" is inside wrapper(): the function is defined outside
\* the class, so the name is not mangled to _SCPI_Instrument__inst, the
\* instance has no attribute "__inst", and __getattr__ answers
WrapperInst == [cls |-> SessionGetattrClass, mb |-> FALSE]

\* isinstance(x, MessageBasedResource)
IsMessageBasedResource(x) == x.cls = "Resource" /\ x.mb

\* a decorator that lets every call through
RequiresMessageBased_Mut == TRUE

\* the decorator lets the call through
RequiresMessageBased == IsMessageBasedResource(WrapperInst)

\* the decorated method m: the wrapper's test, then the method's own
MessageBasedStart(t, m) ==
    /\ CanStart(t)
    /\ IF RequiresMessageBased
       THEN EnterMethod(t, Started(m), m, <<>>)
       ELSE /\ th' = [th EXCEPT ![t] = Started(m)]
            /\ ret' = [ret EXCEPT ![t] = [op |-> m, exc |-> UnsupportedOperation,
                                          val |-> PyNone]]
    /\ trace' = [trace EXCEPT ![t] = <<>>]
    /\ sent' = [sent EXCEPT ![t] = <<>>]
    /\ UNCHANGED <<envVars, propertyVars, configVars, addressVars, transportVars, lock, alive, lastIO>>

(***************************************************************************)
(* Property: the command node                                              *)
(***************************************************************************)
\* Property.__init__
PropertyInit(name, sep) == [name |-> Upper(name), sep |-> sep]

\* SCPI_Instrument.__getattr__(name)
SessionGetattr(name) ==
    PropertyInit((IF prefixCmds THEN <<":">> ELSE <<>>) \o name, argSeparator)

\* a child that takes the name as given
PropertyGetattr_Mut(node, name) == [name |-> node.name \o <<":">> \o name, sep |-> node.sep]

\* Property.__getattr__(name)
PropertyGetattr(node, name) ==
    PropertyInit(Join(<<":">>, <<node.name, Upper(name)>>), node.sep)

\* Property.__call__: the text after the command name
CallArgs(node, values) ==
    IF Len(values) > 0
    THEN <<" ">> \o Join(node.sep, [i \in 1..Len(values) |-> StrOf(values[i])])
    ELSE <<>>

\* Property.__call__: "query = (not args_passed) if query is None else query"
CallIsQuery(values, q) == IF q = PyNone THEN ~(Len(values) > 0) ELSE Truthy(q)

\* Property.__call__: the session method it calls and the message it passes
CallSends(node, values, q) ==
    IF CallIsQuery(values, q)
    THEN [method |-> "query", msg |-> node.name \o <<"?">> \o CallArgs(node, values)]
    ELSE [method |-> "write", msg |-> node.name \o CallArgs(node, values)]

\* node(*values, query=q)
InvokeStart(t, node, values, q) ==
    /\ CanStart(t)
    /\ LET s == CallSends(node, values, q)
       IN  /\ sent' = [sent EXCEPT ![t] = <<s>>]
           /\ EnterMethod(t, [Started("invoke") EXCEPT !.node = node, !.values = values,
                                                       !.fq = q], s.method, s.msg)
    /\ trace' = [trace EXCEPT ![t] = <<>>]
    /\ UNCHANGED <<envVars, propertyVars, configVars, addressVars, transportVars, lock, alive, lastIO>>

(***************************************************************************)
(* Attribute access: the Property objects a chain of names makes           *)
(***************************************************************************)
\* names the session and the Property answer with an attribute of their own,
\* so that __getattr__ is not called for them
SessionAttributes == {<<"p","o","r","t">>}
PropertyAttributes == {<<"n","a","m","e">>}

\* session.<name>: the session's own attribute, or a new Property
SessionAccess(name) ==
    /\ alive
    /\ IF name \in SessionAttributes
       THEN /\ got' = [chain |-> <<name>>, isNode |-> FALSE, ref |-> 0, text |-> port]
            /\ UNCHANGED nodes
       ELSE /\ Len(nodes) < MaxNodes
            /\ nodes' = Append(nodes, [node |-> SessionGetattr(name), chain |-> <<name>>])
            /\ got' = [chain |-> <<name>>, isNode |-> TRUE, ref |-> Len(nodes) + 1,
                       text |-> NoneText]
    /\ UNCHANGED <<envVars, configVars, addressVars, transportVars, sessionVars, conv>>

\* nodes[i].<name>: the Property's own attribute, or a new Property
NodeAccess(i, name) ==
    /\ i \in 1..Len(nodes)
    /\ LET chain == Append(nodes[i].chain, name)
       IN  IF name \in PropertyAttributes
           THEN /\ got' = [chain |-> chain, isNode |-> FALSE, ref |-> 0,
                           text |-> SomeText(nodes[i].node.name)]
                /\ UNCHANGED nodes
           ELSE /\ Len(nodes) < MaxNodes
                /\ nodes' = Append(nodes, [node |-> PropertyGetattr(nodes[i].node, name),
                                           chain |-> chain])
                /\ got' = [chain |-> chain, isNode |-> TRUE, ref |-> Len(nodes) + 1,
                           text |-> NoneText]
    /\ UNCHANGED <<envVars, configVars, addressVars, transportVars, sessionVars, conv>>

(***************************************************************************)
(* Property.val2bool and Property.val2state                                *)
(***************************************************************************)
InvalidInput == "ValueError: Invalid input"
OnText == <<"O","N">>
OffText == <<"O","F","F">>

\* a val2bool that compares the text as given
Val2Bool_Mut(val) ==
    IF val.ty = "str"
    THEN IF val.s = <<"o","n">> \/ val.s = <<"1">> THEN [exc |-> NoError, b |-> TRUE]
         ELSE IF val.s = <<"o","f","f">> \/ val.s = <<"0">> THEN [exc |-> NoError, b |-> FALSE]
         ELSE [exc |-> InvalidInput, b |-> FALSE]
    ELSE [exc |-> NoError, b |-> Truthy(val)]

\* val2bool: the error it raises, or the bool it returns
Val2Bool(val) ==
    IF val.ty = "str"
    THEN LET v == Lower(val.s)
         IN  IF v = <<"o","n">> \/ v = <<"1">> THEN [exc |-> NoError, b |-> TRUE]
             ELSE IF v = <<"o","f","f">> \/ v = <<"0">> THEN [exc |-> NoError, b |-> FALSE]
             ELSE [exc |-> InvalidInput, b |-> FALSE]
    ELSE [exc |-> NoError, b |-> Truthy(val)]

\* val2state: the error it raises, or the text it returns
Val2State(val) ==
    LET state == Val2Bool(val)
    IN  IF state.exc # NoError THEN [exc |-> state.exc, val |-> PyNone]
        ELSE [exc |-> NoError, val |-> PyStr(IF state.b THEN OnText ELSE OffText)]

\* Property.val2state(x)
Val2StateCall(x) ==
    /\ conv' = [calls |-> 1, x |-> x, r1 |-> Val2State(x), r2 |-> NoResult]
    /\ UNCHANGED <<envVars, configVars, addressVars, transportVars, sessionVars, nodes, got>>

\* Property.val2state(r) for the text r the first call returned
Val2StateAgain ==
    /\ conv.calls = 1
    /\ conv.r1.exc = NoError
    /\ conv' = [conv EXCEPT !.calls = 2, !.r2 = Val2State(conv.r1.val)]
    /\ UNCHANGED <<envVars, configVars, addressVars, transportVars, sessionVars, nodes, got>>

(***************************************************************************)
(* State after construction: SCPI_Instrument.__init__                      *)
(***************************************************************************)
\* __init__: "if handshake is True: handshake = 'OK'"
HandshakeInit(h) == IF h = PyBool(TRUE) THEN PyStr(OkText) ELSE h

\* __init__: "self.port = port" runs the port setter on the new session; a
\* session exists only if the setter did not raise
ConstructedWith(p) ==
    IF ~p.some THEN port = NoneText /\ rid = NoneText
    ELSE /\ ~(system = "Windows" /\ WindowsRefuses(p.v))
         /\ Resolve(p.v).exc = NoError
         /\ port = p
         /\ rid = SomeText(Resolve(p.v).name)

InitWith(systems, visibles, classes, matches, ports, handshakes, separators, prefixes) ==
    /\ system \in systems
    /\ visible \in visibles
    /\ messageBased \in classes
    /\ inst = NoObject
    /\ portMatch \in matches
    /\ \E p \in ports : ConstructedWith(p)
    /\ handshake \in {HandshakeInit(h) : h \in handshakes}
    /\ argSeparator \in separators
    /\ prefixCmds \in prefixes
    /\ lock = FreeLock
    /\ alive = TRUE
    /\ obj = [o \in Threads |-> NoResource]
    /\ openSessions = {}
    /\ th = [t \in Threads |-> IdleThread]
    /\ ret = [t \in Threads |-> NoRet]
    /\ trace = [t \in Threads |-> <<>>]
    /\ sent = [t \in Threads |-> <<>>]
    /\ lastIO = NoThread
    /\ nodes = <<>>
    /\ got = NoGot
    /\ conv = NoConv

(***************************************************************************)
(* Inputs                                                                  *)
(***************************************************************************)
\* what list_resources() may show
VisibleSerialUsb == <<<<"A","S","R","L","3",":",":","I","N","S","T","R">>, <<"U","S","B","0",":",":","1","2","3","4",":",":","5","6","7","8",":",":","I","N","S","T","R">>>>
VisibleTwoUsb == <<<<"U","S","B","0",":",":","1",":",":","I","N","S","T","R">>, <<"U","S","B","0",":",":","2",":",":","I","N","S","T","R">>, <<"T","C","P","I","P",":",":","I","N","S","T","R","7",":",":","I","N","S","T","R">>>>
VisibleLists == {VisibleSerialUsb, VisibleTwoUsb}

\* the ports callers assign
PortTexts == {<<"C","O","M","3">>, <<"c","o","m","3">>, <<"C","O","M","4">>, <<"U","S","B","0">>, <<"A","S","R","L","3">>, <<"T","C","P","I","P",":",":","I","N","S","T","R">>}
PortInputs == {NoneText} \cup {SomeText(p) : p \in PortTexts}

\* the command nodes called, the values passed and the query keyword
NodeNames == <<<<"m","e","a","s">>, <<"v","o","l","t">>>>
ValueLists == {<<>>, <<PyStr(<<>>)>>, <<PyInt(5)>>, <<PyStr(<<"o","n">>), PyInt(10)>>,
               <<PyBool(TRUE)>>, <<PyList(<<1, 2>>)>>}
QueryKeywords == {PyNone, PyBool(TRUE), PyBool(FALSE)}

(***************************************************************************)
(* Spec: two threads share one session                                     *)
(***************************************************************************)
Init ==
    InitWith({"Linux"}, {VisibleSerialUsb}, {TRUE}, {TRUE}, {SomeText(<<"U","S","B","0">>)},
             {PyBool(FALSE), PyBool(TRUE)}, {<<",">>}, {FALSE})

\* the steps every call of write, read, query is made of
IoStep(t) ==
    \/ IoLock(t)
    \/ IoCall(t)
    \/ IoRetOk(t)
    \/ IoRetRaise(t)
    \/ Handshake(t)
    \/ ReadLock(t)
    \/ ReadCall(t)
    \/ ReadRetOk(t)
    \/ ReadRetRaise(t)
    \/ HandshakeCompare(t)

\* the steps of connect, disconnect and the port setter
SessionStep(t) ==
    \/ ConnectOpenResource(t)
    \/ ConnectReopen(t)
    \/ ConnectOpenRaise(t)
    \/ ConnectRemote(t)
    \/ CloseRetOk(t)
    \/ CloseRetRaise(t)
    \/ SetPortAssign(t)

Next ==
    \E t \in Threads :
        \/ \E m \in Messages : WriteStart(t, m)
        \/ \E m \in Messages : QueryStart(t, m)
        \/ ReadStart(t)
        \/ \E er \in BOOLEAN : ConnectStart(t, er)
        \/ DisconnectStart(t, "disconnect")
        \/ IoStep(t)
        \/ ConnectOpenResource(t)
        \/ ConnectReopen(t)
        \/ ConnectOpenRaise(t)
        \/ ConnectRemote(t)
        \/ CloseRetOk(t)
        \/ CloseRetRaise(t)

Spec == Init /\ [][Next]_vars

\* the steps of thread t that need nothing but the processor, or are the
\* return of a call to the transport
Runs(t) ==
    \/ IoCall(t)
    \/ IoRetOk(t)
    \/ IoRetRaise(t)
    \/ Handshake(t)
    \/ ReadCall(t)
    \/ ReadRetOk(t)
    \/ ReadRetRaise(t)
    \/ HandshakeCompare(t)
    \/ ConnectOpenResource(t)
    \/ ConnectReopen(t)
    \/ ConnectOpenRaise(t)
    \/ ConnectRemote(t)
    \/ CloseRetOk(t)
    \/ CloseRetRaise(t)

\* the steps in which thread t acquires the lock
Acquires(t) == IoLock(t) \/ ReadLock(t)

\* every thread keeps running, every transport call returns, and a thread
\* that waits for a lock that is free again and again gets it
Fairness == \A t \in Threads : WF_vars(Runs(t)) /\ SF_vars(Acquires(t))

(***************************************************************************)
(* SpecLive: two threads write and query on a session with a handshake     *)
(* token, under fair scheduling                                            *)
(***************************************************************************)
InitLive ==
    InitWith({"Linux"}, {VisibleSerialUsb}, {TRUE}, {TRUE}, {SomeText(<<"U","S","B","0">>)},
             {PyBool(TRUE)}, {<<",">>}, {FALSE})

NextLive ==
    \E t \in Threads :
        \/ \E m \in Messages : WriteStart(t, m)
        \/ \E m \in Messages : QueryStart(t, m)
        \/ ConnectStart(t, FALSE)
        \/ IoStep(t)
        \/ ConnectOpenResource(t)
        \/ ConnectReopen(t)
        \/ ConnectOpenRaise(t)
        \/ ConnectRemote(t)

SpecLive == InitLive /\ [][NextLive]_vars /\ Fairness

(***************************************************************************)
(* SpecSeq: one thread makes every call, on either platform                *)
(***************************************************************************)
InitSeq ==
    InitWith({"Windows", "Linux"}, VisibleLists, {TRUE, FALSE}, {TRUE, FALSE},
             {NoneText}, {PyBool(FALSE), PyBool(TRUE)}, {<<",">>}, {FALSE})

NextSeq ==
    \E t \in {"t1"} :
        \/ \E m \in Messages : WriteStart(t, m)
        \/ \E m \in Messages : QueryStart(t, m)
        \/ ReadStart(t)
        \/ \E er \in BOOLEAN : ConnectStart(t, er)
        \/ DisconnectStart(t, "disconnect")
        \/ DisconnectStart(t, "exit")
        \/ DelStart(t)
        \/ \E p \in PortInputs : SetPortStart(t, p)
        \/ \E m \in {"read_raw", "query_ascii_values", "query_binary_values"} :
              MessageBasedStart(t, m)
        \/ IoStep(t)
        \/ SessionStep(t)

SpecSeq == InitSeq /\ [][NextSeq]_vars

(***************************************************************************)
(* SpecInvoke: one thread calls command nodes                              *)
(***************************************************************************)
InitInvoke ==
    InitWith({"Linux"}, {VisibleSerialUsb}, {TRUE}, {TRUE}, {SomeText(<<"U","S","B","0">>)},
             {PyBool(FALSE), PyBool(TRUE)}, {<<",">>, <<";">>}, {FALSE, TRUE})

\* the nodes reached from the session by one or two attribute accesses
Nodes ==
    {SessionGetattr(NodeNames[1]),
     PropertyGetattr(SessionGetattr(NodeNames[1]), NodeNames[2])}

NextInvoke ==
    \E t \in {"t1"} :
        \/ \E n \in Nodes, v \in ValueLists, q \in QueryKeywords : InvokeStart(t, n, v, q)
        \/ \E er \in BOOLEAN : ConnectStart(t, er)
        \/ DisconnectStart(t, "disconnect")
        \/ IoStep(t)
        \/ ConnectOpenResource(t)
        \/ ConnectReopen(t)
        \/ ConnectOpenRaise(t)
        \/ ConnectRemote(t)
        \/ CloseRetOk(t)
        \/ CloseRetRaise(t)

SpecInvoke == InitInvoke /\ [][NextInvoke]_vars

(***************************************************************************)
(* SpecNode: chains of attribute accesses from one session                 *)
(***************************************************************************)
\* the names accessed
ChainNames == {<<"m","e","a","s">>, <<"v","o","l","t">>, <<"n","a","m","e">>, <<"p","o","r","t">>}

InitNode ==
    InitWith({"Linux"}, {VisibleSerialUsb}, {TRUE}, {TRUE}, {SomeText(<<"U","S","B","0">>)},
             {PyBool(FALSE)}, {<<",">>}, {FALSE, TRUE})

NextNode ==
    \E name \in ChainNames :
        \/ SessionAccess(name)
        \/ \E i \in 1..MaxNodes : NodeAccess(i, name)

SpecNode == InitNode /\ [][NextNode]_vars

(***************************************************************************)
(* SpecConvert: val2state applied to a value, and again to its result      *)
(***************************************************************************)
\* the letters of "on" and "off" in both cases
ConvLetters == {"o", "n", "f", "O", "N", "F"}

\* the texts of at most n of these letters
Words(n) == UNION {[1..k -> ConvLetters] : k \in 0..n}

\* the values given to val2state
ConvInputs ==
    {PyStr(w) : w \in Words(MaxWordLen)}
        \cup {PyStr(<<"1">>), PyStr(<<"0">>), PyStr(<<"2">>), PyStr(<<"1","0">>)}
        \cup {PyInt(n) : n \in -1..2}
        \cup {PyBool(TRUE), PyBool(FALSE), PyNone, PyList(<<>>), PyList(<<1, 2>>)}

InitConvert ==
    InitWith({"Linux"}, {VisibleSerialUsb}, {TRUE}, {TRUE}, {SomeText(<<"U","S","B","0">>)},
             {PyBool(FALSE)}, {<<",">>}, {FALSE})

NextConvert ==
    \/ \E x \in ConvInputs : Val2StateCall(x)
    \/ Val2StateAgain

SpecConvert == InitConvert /\ [][NextConvert]_vars

(***************************************************************************)
(* Properties                                                              *)
(***************************************************************************)
\* thread t's last public call was one of ops and has ended
Done(t, ops) == th[t].pc = "idle" /\ ret[t].op \in ops

\* this step is the first step of thread t's public call o
Starts(t, o) ==
    /\ th[t].pc = "idle"
    /\ th'[t].op = o
    /\ th'[t] # th[t] \/ ret'[t] # ret[t] \/ trace'[t] # trace[t]

\* this step is a step of thread t's public call o
StepOf(t, o) == Starts(t, o) \/ (th[t].pc # "idle" /\ th[t].op = o /\ th'[t] # th[t])

\* a write, read or query transport call of thread t is in flight
InFlightIO(t) ==
    /\ trace[t] # <<>>
    /\ trace[t][Len(trace[t])].st = "inflight"
    /\ trace[t][Len(trace[t])].c \in {"write", "read", "query"}

\* thread t is between the start of the transport call of its write or query
\* and the return of the handshake read that follows it
InHandshakeWindow(t) ==
    /\ Truthy(handshake)
    /\ th[t].method \in {"write", "query"}
    /\ th[t].pc \in {"io_ret", "hs", "r_lock", "r_call", "r_ret"}

\* C1: whatever the interleaving of threads in write(), query() and read(),
\* at most one of their transport calls is in flight, and from a thread's
\* write/query transport call to the end of its handshake read no other
\* thread's transport call begins.
C1_OneTransportCallAtATime ==
    /\ Cardinality({t \in Threads : InFlightIO(t)}) <= 1
    /\ \A t \in Threads : InHandshakeWindow(t) => lastIO = t

\* one thread waits for the lock while the other's handshake read is in flight
C1_Witness ==
    \E t, u \in Threads :
        /\ t # u
        /\ InHandshakeWindow(t) /\ th[t].pc = "r_ret" /\ th[t].op = "query"
        /\ th[u].pc = "io_lock" /\ th[u].op = "write"

\* C2: with a handshake token set, a write() or query() whose transport call
\* returned makes exactly one more transport call, a read; if that read
\* returns the token the operation returns the transport's result, if it
\* returns another text the operation raises HandshakeFailure with that text
\* and the session stays connected. read(), and every operation when no
\* token is set, makes no further transport call.
C2_HandshakeAfterWriteAndQuery ==
    \A t \in Threads :
        (Done(t, {"write", "query", "read"}) /\ trace[t] # <<>>) =>
            LET tr == trace[t]
            IN  /\ tr[1].c = ret[t].op
                /\ IF Truthy(handshake) /\ ret[t].op # "read" /\ tr[1].st = "ok"
                   THEN /\ Len(tr) = 2
                        /\ tr[2].c = "read"
                        /\ (tr[2].st = "ok" /\ tr[2].v = handshake) =>
                              (ret[t].exc = NoError /\ ret[t].val = tr[1].v)
                        /\ (tr[2].st = "ok" /\ tr[2].v # handshake) =>
                              /\ ret[t].exc = HandshakeFailure
                              /\ ret[t].val = tr[2].v
                              /\ Connected
                   ELSE /\ Len(tr) = 1
                        /\ tr[1].st = "ok" => (ret[t].exc = NoError /\ ret[t].val = tr[1].v)

\* a write whose handshake read returned "ERR" raised HandshakeFailure("ERR")
C2_Witness ==
    \E t \in Threads :
        /\ Done(t, {"write"})
        /\ ret[t].exc = HandshakeFailure
        /\ ret[t].val = PyStr(ErrText)
        /\ Len(trace[t]) = 2

\* C3: when the session is not connected, write(), read() and query() fail
\* with NotConnected and make no transport call, and the session holds a
\* Resource exactly when it is connected.
C3_NotConnectedFails ==
    /\ \A t \in Threads :
          (Done(t, {"write", "read", "query"}) /\ ~Connected) =>
              (ret[t].exc = NotConnected /\ trace[t] = <<>>)
    /\ (inst # NoObject) <=> Connected

\* C4: after every port assignment that succeeded, the session is not
\* connected.
C4_PortAssignmentDisconnects ==
    \A t \in Threads :
        (Done(t, {"set_port"}) /\ ret[t].exc = NoError) => ~Connected

\* the visible resources the pattern of port p matches
Matching(p) == {i \in 1..Len(visible) : ReMatch(PatternOf(p), visible[i]) # -1}

\* C5: with exact matching, a port assignment that reaches the match sets the
\* resource id exactly when one visible resource matches the pattern, and
\* then to that resource's full string; no match is ResourceNotFound, two or
\* more are AmbiguousResource.
C5_ExactlyOneMatch ==
    \A t \in Threads :
        (/\ Done(t, {"set_port"})
         /\ th[t].arg.some
         /\ portMatch
         /\ ret[t].exc \notin {UnsupportedPort, VisaIOError}) =>
            LET m == Matching(th[t].arg.v)
            IN  /\ Cardinality(m) = 0 <=> ret[t].exc = ResourceNotFound
                /\ Cardinality(m) > 1 <=> ret[t].exc = AmbiguousResource
                /\ Cardinality(m) = 1 <=> ret[t].exc = NoError
                /\ ret[t].exc = NoError => \E i \in m : rid = SomeText(visible[i])

\* C6: connect() on a session whose resource id is None raises NotAddressed
\* in its first step, makes no call to the resource manager or a Resource,
\* and changes nothing of the session (a session that was not connected is
\* still not connected).
C6_ConnectWithoutResourceId ==
    [][\A t \in Threads :
          (Starts(t, "connect") /\ rid = NoneText) =>
              /\ th'[t].pc = "idle"
              /\ ret'[t].exc = NotAddressed
              /\ trace'[t] = <<>>
              /\ UNCHANGED <<configVars, addressVars, transportVars, lock, alive>>
              /\ ~Connected => ~Connected']_vars

\* a connect() on a session without resource id has raised NotAddressed
C6_Witness ==
    \E t \in Threads :
        Done(t, {"connect"}) /\ ret[t].exc = NotAddressed /\ rid = NoneText

\* C7 as claimed: disconnect() never fails, and afterwards the session is not
\* connected.
C7_DisconnectNeverFails ==
    \A t \in Threads :
        Done(t, {"disconnect"}) => (ret[t].exc = NoError /\ ~Connected)

\* C7 amended: disconnect() on a session that is not connected (never
\* connected, or already disconnected) does not fail and leaves the session
\* as it was; on a connected session it fails only with the error the
\* transport's close raised, and the session then stays connected; when it
\* returns the session is not connected.
C7_DisconnectIdempotent ==
    [][\A t \in Threads :
          StepOf(t, "disconnect") =>
              /\ ~Connected =>
                    /\ UNCHANGED <<configVars, addressVars, transportVars, lock, alive>>
                    /\ th'[t].pc = "idle" => ret'[t].exc = NoError
              /\ th'[t].pc = "idle" =>
                    /\ ret'[t].exc \in {NoError, VisaIOError}
                    /\ ret'[t].exc = VisaIOError => (Connected /\ Connected')
                    /\ ret'[t].exc = NoError => ~Connected']_vars

\* a disconnect() on a session already disconnected has returned: its close
\* found no session to close
C7_Witness ==
    \E t \in Threads :
        /\ Done(t, {"disconnect"})
        /\ ret[t].exc = NoError
        /\ inst # NoObject
        /\ ~Connected
        /\ trace[t] = <<Call("close", <<>>, "noop", PyNone)>>

\* C8: leaving the context manager (__exit__) and destroying the session
\* (__del__) never raise, also when the transport's close raises.
C8_TeardownNeverRaises ==
    \A t \in Threads : Done(t, {"exit", "del"}) => ret[t].exc = NoError

\* C9: read_raw, query_ascii_values and query_binary_values on a session
\* whose Resource is not message based raise UnsupportedOperation and make no
\* transport call.
C9_RequiresMessageBased ==
    \A t \in Threads :
        (/\ Done(t, {"read_raw", "query_ascii_values", "query_binary_values"})
         /\ inst # NoObject
         /\ ~obj[inst].mb) =>
            (ret[t].exc = UnsupportedOperation /\ trace[t] = <<>>)

\* read_raw on a connected session whose Resource is not message based
C9_Witness ==
    \E t \in Threads :
        /\ Done(t, {"read_raw"})
        /\ Connected
        /\ ~obj[inst].mb
        /\ ret[t].exc = UnsupportedOperation

\* the one message the claim says node(*values, query=q) sends
ClaimedSend(node, values, q) ==
    LET argsText == Join(node.sep, [i \in 1..Len(values) |-> StrOf(values[i])])
        isQuery == IF q # PyNone THEN Truthy(q) ELSE values = <<>>
        tail == IF argsText # <<>> THEN <<" ">> \o argsText ELSE <<>>
    IN  IF isQuery THEN [method |-> "query", msg |-> node.name \o <<"?">> \o tail]
        ELSE [method |-> "write", msg |-> node.name \o tail]

\* C10: invoke sends exactly one message through the session, the command
\* path, "?" for a query, and " " + argsText only when argsText is not empty.
C10_InvokeSendsOneMessage ==
    \A t \in Threads :
        th[t].op = "invoke" =>
            sent[t] = <<ClaimedSend(th[t].node, th[t].values, th[t].fq)>>

\* the error the specification names for an argument it does not accept
InvalidArgument == "InvalidArgument"

\* the values are all of a primitive type (text, number, truth value)
Primitive(values) ==
    \A i \in 1..Len(values) : values[i].ty \in {"str", "int", "bool"}

\* C11: a command node called with a value of a non-primitive type (a list)
\* fails with InvalidArgument and sends nothing to the transport.
C11_NonPrimitiveArgumentFails ==
    \A t \in Threads :
        (Done(t, {"invoke"}) /\ Connected /\ ~Primitive(th[t].values)) =>
            (ret[t].exc = InvalidArgument /\ trace[t] = <<>>)

\* uppercase(n1):...:uppercase(nk)
ClaimedPath(chain) == Join(<<":">>, [i \in 1..Len(chain) |-> Upper(chain[i])])

\* no Property object made before this step is changed by it
NodesKept == \A i \in 1..Len(nodes) : Len(nodes') >= i /\ nodes'[i] = nodes[i]

\* C12 as claimed: every chain of names accessed from the session yields a
\* node whose path is uppercase(n1):...:uppercase(nk), and no node made
\* before is changed.
C12_ChainPath ==
    [][/\ got'.chain # <<>> =>
             (got'.isNode /\ nodes'[got'.ref].node.name = ClaimedPath(got'.chain))
       /\ NodesKept]_vars

\* the last name of the chain is an attribute of the object it is asked of
OwnAttribute(chain) ==
    IF Len(chain) = 1 THEN chain[1] \in SessionAttributes
    ELSE chain[Len(chain)] \in PropertyAttributes

\* C12 amended: a chain of names none of which is an attribute of the object
\* it is asked of yields a new node whose path is uppercase(n1):...:
\* uppercase(nk), with ":" before it when the session prefixes commands; a
\* name that is such an attribute yields the attribute and no node; no node
\* made before is changed, so children of one parent are independent.
C12_ChainPathWithPrefix ==
    [][/\ got'.chain # <<>> => (got'.isNode <=> ~OwnAttribute(got'.chain))
       /\ got'.isNode =>
             /\ got'.ref \in 1..Len(nodes')
             /\ nodes'[got'.ref].node.name =
                    (IF prefixCmds THEN <<":">> ELSE <<>>) \o ClaimedPath(got'.chain)
             /\ nodes'[got'.ref].node.sep = argSeparator
       /\ NodesKept]_vars

\* two children were made from one parent, which still has its path
C12_Witness ==
    \E i, j, k \in 1..Len(nodes) :
        /\ i < j /\ j < k
        /\ Len(nodes[i].chain) = 1
        /\ nodes[j].chain = Append(nodes[i].chain, <<"v","o","l","t">>)
        /\ nodes[k].chain = Append(nodes[i].chain, <<"m","e","a","s">>)
        /\ nodes[i].node.name = <<"M","E","A","S">>
        /\ nodes[j].node.name = <<"M","E","A","S",":","V","O","L","T">>
        /\ nodes[k].node.name = <<"M","E","A","S",":","M","E","A","S">>

\* C13: on Windows with exact matching and the visible resources
\* ASRL3::INSTR and USB0::1234::5678::INSTR, the ports "COM3" and "com3"
\* both set the resource id ASRL3::INSTR and "COM4" fails with
\* ResourceNotFound.
C13_SerialPortAnyCase ==
    \A t \in Threads :
        (/\ Done(t, {"set_port"})
         /\ system = "Windows"
         /\ portMatch
         /\ visible = VisibleSerialUsb
         /\ th[t].arg.some) =>
            /\ th[t].arg.v \in {<<"C","O","M","3">>, <<"c","o","m","3">>} =>
                  (ret[t].exc = NoError /\ rid = SomeText(VisibleSerialUsb[1]))
            /\ th[t].arg.v = <<"C","O","M","4">> => ret[t].exc = ResourceNotFound

\* the inputs the claim calls accepted: on/off/1/0 in any letter case, the
\* numbers 1 and 0, True and False
Accepted(x) ==
    \/ x.ty = "str" /\ Lower(x.s) \in {<<"o","n">>, <<"o","f","f">>, <<"1">>, <<"0">>}
    \/ x.ty = "int" /\ x.n \in {0, 1}
    \/ x.ty = "bool"

\* C14: val2state maps every accepted input to "ON" or "OFF", and applied to
\* its own result it returns that result again.
C14_Val2StateIdempotent ==
    (conv.calls >= 1 /\ Accepted(conv.x)) =>
        /\ conv.r1.exc = NoError
        /\ conv.r1.val \in {PyStr(OnText), PyStr(OffText)}
        /\ conv.calls = 2 => conv.r2 = conv.r1

\* val2state("oFF") returned "OFF", and val2state("OFF") returned "OFF"
C14_Witness ==
    /\ conv.calls = 2
    /\ conv.x = PyStr(<<"o","F","F">>)
    /\ conv.r1 = [exc |-> NoError, val |-> PyStr(OffText)]
    /\ conv.r2 = [exc |-> NoError, val |-> PyStr(OffText)]

\* C15: whenever connect() has succeeded, the session is connected and the
\* transport that is open is the one of the session's current resource id,
\* also when the port was assigned again after an earlier connect().
C15_ConnectOpensCurrentResource ==
    \A t \in Threads :
        (Done(t, {"connect"}) /\ ret[t].exc = NoError) =>
            (Connected /\ rid.some /\ obj[inst].name = rid.v)

C17_AtMostOneOpenTransport == Cardinality(openSessions) <= 1

\* C18: a port assignment that fails leaves the port, the resource id and
\* the connection as they were: neither the step that ends it with an error
\* nor an earlier step of an assignment whose match will fail changes them.
C18_FailedAssignmentChangesNothing ==
    [][\A t \in Threads :
          /\ (StepOf(t, "set_port") /\ th'[t].pc = "idle" /\ ret'[t].exc # NoError) =>
                (UNCHANGED <<port, rid>> /\ (Connected <=> Connected'))
          /\ (StepOf(t, "set_port") /\ th'[t].pc # "idle" /\ Resolve(th'[t].arg.v).exc # NoError) =>
                (UNCHANGED <<port, rid>> /\ (Connected <=> Connected'))]_vars

\* C19: when connect() raised after it had opened the transport (its *IDN?
\* query or remote-control write failed, or the handshake did not match),
\* the session is not connected.
C19_FailedConnectNotConnected ==
    \A t \in Threads :
        (/\ Done(t, {"connect"})
         /\ ret[t].exc \in {VisaIOError, HandshakeFailure}
         /\ Len(trace[t]) >= 2
         /\ trace[t][1].st = "ok") =>
            ~Connected

\* C20: on a connected session whose Resource is message based, read_raw,
\* query_ascii_values and query_binary_values do not raise
\* UnsupportedOperation: they make their transport call.
C20_MessageBasedCallsPass ==
    \A t \in Threads :
        (/\ Done(t, {"read_raw", "query_ascii_values", "query_binary_values"})
         /\ Connected
         /\ obj[inst].mb) =>
            (ret[t].exc # UnsupportedOperation /\ trace[t] # <<>>)

====
